---- MODULE Spec2Model ----
(***************************************************************************)
(* Course platform: the relational schema and its row-level-security       *)
(* policies (supabase/migrations/20260206161744_*.sql), the signup trigger *)
(* handle_new_user, and the admin screen's saveCourse (src/pages/Admin.tsx)*)
(*                                                                         *)
(* A table is the set of its rows; a row is a record of the columns the    *)
(* policies, constraints and handlers read.  A request of a principal is    *)
(* an action: the new table is computed by an operator that applies the    *)
(* table's policies and constraints, so a denied request leaves the table  *)
(* as it was.  Policy sub-selects are evaluated on the tables as the acting *)
(* principal sees them (row-level security applies inside policies too);   *)
(* has_role is SECURITY DEFINER and reads user_roles directly.             *)
(***************************************************************************)
EXTENDS Integers, Sequences, FiniteSets, TLC

\* ---------------------------------------------------------------- bounds
NumUsers == 3
MaxIds == 4
MaxCourses == 1
MaxSaveIds == 6
MaxModules == 2
MaxLessons == 1
NumSessions == 1
NumConcurrent == 2

Users == 1..NumUsers
\* auth.uid() of a request without a session is NULL
Anon == 0
Principals == Users \cup {Anon}
\* a NULL text column
NULL == "null"
\* an id that is absent: CourseForm.id undefined, data?.id of a failed insert
NoId == 0
Names == {"Ada"}
Sessions == 1..NumSessions

\* CREATE TYPE public.app_role AS ENUM ('admin', 'student')
app_role == {"admin", "student"}
\* CHECK (status IN ('active', 'expired', 'refunded'))
EnrollmentStatus == {"active", "expired", "refunded"}

VARIABLES
    auth_users,       \* auth.users: the ids of the signed-up principals
    profiles,         \* public.profiles: [user_id, full_name]
    user_roles,       \* public.user_roles: [id, user_id, role]
    courses,          \* public.courses: [id, is_published]
    enrollments,      \* public.enrollments: [id, user_id, course_id, status]
    course_modules,   \* public.course_modules: [id, course_id, sort_order]
    lessons,          \* public.lessons: [id, module_id, sort_order, is_preview]
    course_reviews,   \* public.course_reviews: [id, user_id, course_id,
                      \*                         is_approved]
    nextId,           \* gen_random_uuid(): ids 1..nextId-1 have been handed out
    signup,           \* outcome of the last signup event: [user, name, result]
    sess              \* per admin screen: the React state and saveCourse's position

dbvars == <<auth_users, profiles, user_roles, courses, enrollments,
            course_modules, lessons, course_reviews, nextId, signup>>
vars == <<auth_users, profiles, user_roles, courses, enrollments,
          course_modules, lessons, course_reviews, nextId, signup, sess>>

\* ------------------------------------------------------- role check
\* has_role(_user_id, _role): SECURITY DEFINER, no policy applies to its read
has_role(uid, role) ==
    \E r \in user_roles : r.user_id = uid /\ r.role = role

\* ------------------------------------------------------- profiles policies
profiles_select(p, row) == p = row.user_id
profiles_update(p, row) == p = row.user_id
profiles_insert(p, row) == p = row.user_id

\* ------------------------------------------------------- user_roles policies
user_roles_select(p, row) == p = row.user_id \/ has_role(p, "admin")
\* FOR ALL USING (...): the same predicate is the WITH CHECK of an insert
user_roles_write_Own(p, row) == p = row.user_id \/ has_role(p, "admin")

user_roles_write(p, row) == has_role(p, "admin")

\* ------------------------------------------------------- courses policies
courses_select_Everyone(p, row) == TRUE
courses_select(p, row) == row.is_published = TRUE \/ has_role(p, "admin")
courses_write(p, row) == has_role(p, "admin")
VisibleCourses(p) == {c \in courses : courses_select(p, c)}

\* ------------------------------------------------------- enrollments policies
enrollments_select(p, row) == p = row.user_id \/ has_role(p, "admin")
enrollments_write(p, row) == has_role(p, "admin")
VisibleEnrollments(p) == {e \in enrollments : enrollments_select(p, e)}

\* ------------------------------------------------------- course_modules policies
course_modules_select(p, row) ==
    \/ \E c \in VisibleCourses(p) : c.id = row.course_id /\ c.is_published = TRUE
    \/ has_role(p, "admin")
course_modules_write_Authenticated(p, row) == p # Anon

course_modules_write(p, row) == has_role(p, "admin")
VisibleModules(p) == {m \in course_modules : course_modules_select(p, m)}

\* ------------------------------------------------------- lessons policies
lessons_preview_AnyCourse(p, row) ==
    /\ row.is_preview = TRUE
    /\ \E m \in course_modules : m.id = row.module_id

\* "Anyone can view preview lessons"
lessons_preview(p, row) ==
    /\ row.is_preview = TRUE
    /\ \E m \in VisibleModules(p) : \E c \in VisibleCourses(p) :
          c.id = m.course_id /\ m.id = row.module_id /\ c.is_published = TRUE

lessons_enrolled_AnyStatus(p, row) ==
    \E m \in VisibleModules(p) : \E c \in VisibleCourses(p) :
      \E e \in VisibleEnrollments(p) :
          /\ c.id = m.course_id
          /\ e.course_id = c.id
          /\ m.id = row.module_id
          /\ e.user_id = p

\* "Enrolled students can view all lessons"
lessons_enrolled(p, row) ==
    \E m \in VisibleModules(p) : \E c \in VisibleCourses(p) :
      \E e \in VisibleEnrollments(p) :
          /\ c.id = m.course_id
          /\ e.course_id = c.id
          /\ m.id = row.module_id
          /\ e.user_id = p
          /\ e.status = "active"

lessons_select(p, row) ==
    lessons_preview(p, row) \/ lessons_enrolled(p, row) \/ has_role(p, "admin")
lessons_write(p, row) == has_role(p, "admin")
VisibleLessons(p) == {l \in lessons : lessons_select(p, l)}

\* ------------------------------------------------------- course_reviews policies
course_reviews_select(p, row) == row.is_approved = TRUE \/ has_role(p, "admin")
course_reviews_insert(p, row) == p = row.user_id \/ has_role(p, "admin")
course_reviews_update(p, row) == p = row.user_id \/ has_role(p, "admin")
course_reviews_delete(p, row) == has_role(p, "admin")

\* ======================================================== storage requests
\* Each operator is the table after one statement of principal p: the rows the
\* policies let p write, subject to the table's constraints.  A statement that
\* is denied or breaks a constraint changes nothing.

\* ---- id UUID PRIMARY KEY DEFAULT gen_random_uuid() of user_roles, enrollments
\* and course_reviews.  Nothing reads these ids except to tell two rows apart,
\* so a new row is numbered among the rows that carry the same unique key:
\* same is the set of those rows.
NewRowId(same) ==
    IF same = {} THEN 0
    ELSE 1 + (CHOOSE i \in {r.id : r \in same} :
                 \A j \in {r.id : r \in same} : j <= i)

\* the rows that carry the key of a UNIQUE constraint
SameGrant(u, role) == {r \in user_roles : r.user_id = u /\ r.role = role}
SameEnrollment(u, c) ==
    {e \in enrollments : e.user_id = u /\ e.course_id = c}
SameReview(u, c) ==
    {r \in course_reviews : r.user_id = u /\ r.course_id = c}

\* the rows the insert statements send
NewGrant(u, role) ==
    [id |-> NewRowId(SameGrant(u, role)), user_id |-> u, role |-> role]
NewEnrollment(u, c, status) ==
    [id |-> NewRowId(SameEnrollment(u, c)), user_id |-> u, course_id |-> c,
     status |-> status]
NewReview(u, c) ==
    [id |-> NewRowId(SameReview(u, c)), user_id |-> u, course_id |-> c,
     is_approved |-> FALSE]

\* ---- handle_new_user: the AFTER INSERT trigger on auth.users.  SECURITY
\* DEFINER, so no policy applies; an exception in either insert aborts the
\* statement that fired the trigger, and everything it wrote is rolled back.
\* failAt names the insert that raises for a reason outside the schema.
ProfileInsertRaises_NoUnique(u, failAt) == failAt = "profile"

ProfileInsertRaises(u, failAt) ==
    failAt = "profile" \/ \E r \in profiles : r.user_id = u
RoleInsertRaises(u, failAt) ==
    failAt = "role" \/ SameGrant(u, "student") # {}

HandleNewUser_NoRollback(u, name, failAt) ==
    IF ProfileInsertRaises(u, failAt)
    THEN [ok |-> FALSE, profiles |-> profiles, user_roles |-> user_roles]
    ELSE IF RoleInsertRaises(u, failAt)
    THEN [ok |-> FALSE,
          profiles |-> profiles \cup {[user_id |-> u, full_name |-> name]},
          user_roles |-> user_roles]
    ELSE [ok |-> TRUE,
          profiles |-> profiles \cup {[user_id |-> u, full_name |-> name]},
          user_roles |-> user_roles \cup {NewGrant(u, "student")}]

HandleNewUser(u, name, failAt) ==
    IF ProfileInsertRaises(u, failAt) \/ RoleInsertRaises(u, failAt)
    THEN [ok |-> FALSE, profiles |-> profiles, user_roles |-> user_roles]
    ELSE [ok |-> TRUE,
          profiles |-> profiles \cup {[user_id |-> u, full_name |-> name]},
          user_roles |-> user_roles \cup {NewGrant(u, "student")}]

\* ---- profiles
ProfilesAfterUpdate(p, u, name) ==
    {IF r.user_id = u /\ profiles_update(p, r)
     THEN [r EXCEPT !.full_name = name] ELSE r : r \in profiles}

\* ---- user_roles: UNIQUE (user_id, role), user_id REFERENCES auth.users
\* What an insert returns: the policy's WITH CHECK is tested on the new row
\* first, then the row goes into the unique index, and the foreign keys are
\* checked when the statement ends.
UserRolesInsertResult_NoUnique(p, row) ==
    IF ~user_roles_write(p, row) THEN "rls_violation"
    ELSE IF row.user_id \notin auth_users THEN "foreign_key_violation"
    ELSE "ok"

UserRolesInsertResult(p, row) ==
    IF ~user_roles_write(p, row) THEN "rls_violation"
    ELSE IF SameGrant(row.user_id, row.role) # {} THEN "unique_violation"
    ELSE IF row.user_id \notin auth_users THEN "foreign_key_violation"
    ELSE "ok"
UserRolesAfterInsert(p, row) ==
    IF UserRolesInsertResult(p, row) = "ok"
    THEN user_roles \cup {row} ELSE user_roles
UserRolesAfterDelete(p, u, role) ==
    {r \in user_roles :
        ~(r.user_id = u /\ r.role = role /\ user_roles_write(p, r))}
\* update(...).eq(...): the admin policy is the USING and the WITH CHECK of
\* the update; a new key that is already taken aborts the statement
UserRolesAfterUpdate(p, u, role, newrole) ==
    LET hit == {r \in SameGrant(u, role) : user_roles_write(p, r)} IN
    IF hit = {} \/ newrole = role THEN user_roles
    ELSE IF SameGrant(u, newrole) # {} THEN user_roles
    ELSE (user_roles \ hit) \cup {[r EXCEPT !.role = newrole] : r \in hit}

\* ---- courses
CoursesAfterInsert(p, row) ==
    IF courses_write(p, row) THEN courses \cup {row} ELSE courses
CoursesAfterUpdate(p, id, pub) ==
    {IF r.id = id /\ courses_write(p, r)
     THEN [r EXCEPT !.is_published = pub] ELSE r : r \in courses}
CoursesAfterDelete(p, id) ==
    {r \in courses : ~(r.id = id /\ courses_write(p, r))}

\* ---- course_modules: course_id REFERENCES courses ON DELETE CASCADE
ModulesAfterInsert(p, row) ==
    IF /\ course_modules_write(p, row)
       /\ \E c \in courses : c.id = row.course_id
    THEN course_modules \cup {row} ELSE course_modules
\* delete().eq("course_id", id)
ModulesAfterDelete(p, id) ==
    {r \in course_modules : ~(r.course_id = id /\ course_modules_write(p, r))}
ModulesAfterUpdate(p, id, sort) ==
    {IF r.id = id /\ course_modules_write(p, r)
     THEN [r EXCEPT !.sort_order = sort] ELSE r : r \in course_modules}

\* ---- lessons: module_id REFERENCES course_modules ON DELETE CASCADE
LessonsAfterInsert(p, row) ==
    IF /\ lessons_write(p, row)
       /\ \E m \in course_modules : m.id = row.module_id
    THEN lessons \cup {row} ELSE lessons
LessonsAfterUpdate(p, id, preview) ==
    {IF r.id = id /\ lessons_write(p, r)
     THEN [r EXCEPT !.is_preview = preview] ELSE r : r \in lessons}
LessonsAfterDelete(p, id) ==
    {r \in lessons : ~(r.id = id /\ lessons_write(p, r))}

\* ---- ON DELETE CASCADE, given the parent rows that remain
CascadeModules(cs) == {m \in course_modules : \E c \in cs : c.id = m.course_id}
CascadeLessons(ms) == {l \in lessons : \E m \in ms : m.id = l.module_id}
CascadeEnrollments(cs) == {e \in enrollments : \E c \in cs : c.id = e.course_id}
CascadeReviews(cs) == {r \in course_reviews : \E c \in cs : c.id = r.course_id}

\* ---- enrollments: UNIQUE (user_id, course_id), both REFERENCES
EnrollmentsInsertResult(p, row) ==
    IF ~enrollments_write(p, row) THEN "rls_violation"
    ELSE IF row.status \notin EnrollmentStatus THEN "check_violation"
    ELSE IF SameEnrollment(row.user_id, row.course_id) # {}
    THEN "unique_violation"
    ELSE IF \/ row.user_id \notin auth_users
            \/ ~\E c \in courses : c.id = row.course_id
    THEN "foreign_key_violation"
    ELSE "ok"
EnrollmentsAfterInsert(p, row) ==
    IF EnrollmentsInsertResult(p, row) = "ok"
    THEN enrollments \cup {row} ELSE enrollments
EnrollmentsAfterUpdate(p, u, c, status) ==
    {IF e.user_id = u /\ e.course_id = c /\ enrollments_write(p, e)
     THEN [e EXCEPT !.status = status] ELSE e : e \in enrollments}
EnrollmentsAfterDelete(p, u, c) ==
    {e \in enrollments :
        ~(e.user_id = u /\ e.course_id = c /\ enrollments_write(p, e))}

\* ---- course_reviews: UNIQUE (user_id, course_id), both REFERENCES
ReviewsInsertResult(p, row) ==
    IF ~course_reviews_insert(p, row) THEN "rls_violation"
    ELSE IF SameReview(row.user_id, row.course_id) # {} THEN "unique_violation"
    ELSE IF \/ row.user_id \notin auth_users
            \/ ~\E c \in courses : c.id = row.course_id
    THEN "foreign_key_violation"
    ELSE "ok"
ReviewsAfterInsert(p, row) ==
    IF ReviewsInsertResult(p, row) = "ok"
    THEN course_reviews \cup {row} ELSE course_reviews
\* update(...).eq(...) reads the rows it filters, so the SELECT policies apply
\* to them as well as the UPDATE policies
ReviewsAfterUpdate(p, u, c, approved) ==
    {IF /\ r.user_id = u /\ r.course_id = c
        /\ course_reviews_update(p, r) /\ course_reviews_select(p, r)
     THEN [r EXCEPT !.is_approved = approved] ELSE r : r \in course_reviews}

ReviewsAfterDelete(p, u, c) ==
    {r \in course_reviews :
        ~(r.user_id = u /\ r.course_id = c /\ course_reviews_delete(p, r))}

\* ======================================================== database requests
\* A signup event of the identity provider: the insert into auth.users and the
\* trigger on_auth_user_created run as one statement.
Signup(u, name, failAt) ==
    LET r == HandleNewUser(u, name, failAt) IN
    /\ auth_users' = IF r.ok THEN auth_users \cup {u} ELSE auth_users
    /\ profiles' = r.profiles
    /\ user_roles' = r.user_roles
    /\ signup' = [user |-> u, full_name |-> name,
                  result |-> IF r.ok THEN "ok" ELSE "failed"]
    /\ UNCHANGED <<courses, enrollments, course_modules, lessons,
                   course_reviews, nextId, sess>>

UpdateProfile(p, name) ==
    /\ profiles' = ProfilesAfterUpdate(p, p, name)
    /\ UNCHANGED <<auth_users, user_roles, courses, enrollments, course_modules,
                   lessons, course_reviews, nextId, signup, sess>>

InsertRole(p, u, role) ==
    /\ user_roles' = UserRolesAfterInsert(p, NewGrant(u, role))
    /\ UNCHANGED <<auth_users, profiles, courses, enrollments, course_modules,
                   lessons, course_reviews, nextId, signup, sess>>

DeleteRole(p, u, role) ==
    /\ user_roles' = UserRolesAfterDelete(p, u, role)
    /\ UNCHANGED <<auth_users, profiles, courses, enrollments, course_modules,
                   lessons, course_reviews, nextId, signup, sess>>

UpdateRole(p, u, role, newrole) ==
    /\ user_roles' = UserRolesAfterUpdate(p, u, role, newrole)
    /\ UNCHANGED <<auth_users, profiles, courses, enrollments, course_modules,
                   lessons, course_reviews, nextId, signup, sess>>

InsertCourse(p, pub) ==
    /\ nextId <= MaxIds
    /\ Cardinality(courses) < MaxCourses
    /\ courses' = CoursesAfterInsert(p, [id |-> nextId, is_published |-> pub])
    /\ nextId' = IF courses' = courses THEN nextId ELSE nextId + 1
    /\ UNCHANGED <<auth_users, profiles, user_roles, enrollments, course_modules,
                   lessons, course_reviews, signup, sess>>

UpdateCourse(p, id, pub) ==
    /\ courses' = CoursesAfterUpdate(p, id, pub)
    /\ UNCHANGED <<auth_users, profiles, user_roles, enrollments, course_modules,
                   lessons, course_reviews, nextId, signup, sess>>

\* deleteCourse's statement: the delete cascades down the hierarchy
DeleteCourse(p, id) ==
    /\ courses' = CoursesAfterDelete(p, id)
    /\ course_modules' = CascadeModules(courses')
    /\ lessons' = CascadeLessons(course_modules')
    /\ enrollments' = CascadeEnrollments(courses')
    /\ course_reviews' = CascadeReviews(courses')
    /\ UNCHANGED <<auth_users, profiles, user_roles, nextId, signup, sess>>

InsertModule(p, c) ==
    /\ nextId <= MaxIds
    /\ course_modules' = ModulesAfterInsert(p,
           [id |-> nextId, course_id |-> c, sort_order |-> 0])
    /\ nextId' = IF course_modules' = course_modules THEN nextId ELSE nextId + 1
    /\ UNCHANGED <<auth_users, profiles, user_roles, courses, enrollments,
                   lessons, course_reviews, signup, sess>>

DeleteModules(p, c) ==
    /\ course_modules' = ModulesAfterDelete(p, c)
    /\ lessons' = CascadeLessons(course_modules')
    /\ UNCHANGED <<auth_users, profiles, user_roles, courses, enrollments,
                   course_reviews, nextId, signup, sess>>

InsertLesson(p, m, preview) ==
    /\ nextId <= MaxIds
    /\ lessons' = LessonsAfterInsert(p,
           [id |-> nextId, module_id |-> m, sort_order |-> 0,
            is_preview |-> preview])
    /\ nextId' = IF lessons' = lessons THEN nextId ELSE nextId + 1
    /\ UNCHANGED <<auth_users, profiles, user_roles, courses, enrollments,
                   course_modules, course_reviews, signup, sess>>

UpdateModule(p, id, sort) ==
    /\ course_modules' = ModulesAfterUpdate(p, id, sort)
    /\ UNCHANGED <<auth_users, profiles, user_roles, courses, enrollments,
                   lessons, course_reviews, nextId, signup, sess>>

UpdateLesson(p, id, preview) ==
    /\ lessons' = LessonsAfterUpdate(p, id, preview)
    /\ UNCHANGED <<auth_users, profiles, user_roles, courses, enrollments,
                   course_modules, course_reviews, nextId, signup, sess>>

DeleteLesson(p, id) ==
    /\ lessons' = LessonsAfterDelete(p, id)
    /\ UNCHANGED <<auth_users, profiles, user_roles, courses, enrollments,
                   course_modules, course_reviews, nextId, signup, sess>>

InsertEnrollment(p, u, c, status) ==
    /\ enrollments' = EnrollmentsAfterInsert(p, NewEnrollment(u, c, status))
    /\ UNCHANGED <<auth_users, profiles, user_roles, courses, course_modules,
                   lessons, course_reviews, nextId, signup, sess>>

UpdateEnrollment(p, u, c, status) ==
    /\ enrollments' = EnrollmentsAfterUpdate(p, u, c, status)
    /\ UNCHANGED <<auth_users, profiles, user_roles, courses, course_modules,
                   lessons, course_reviews, nextId, signup, sess>>

DeleteEnrollment(p, u, c) ==
    /\ enrollments' = EnrollmentsAfterDelete(p, u, c)
    /\ UNCHANGED <<auth_users, profiles, user_roles, courses, course_modules,
                   lessons, course_reviews, nextId, signup, sess>>

InsertReview(p, u, c) ==
    /\ course_reviews' = ReviewsAfterInsert(p, NewReview(u, c))
    /\ UNCHANGED <<auth_users, profiles, user_roles, courses, enrollments,
                   course_modules, lessons, nextId, signup, sess>>

UpdateReview(p, u, c, approved) ==
    /\ course_reviews' = ReviewsAfterUpdate(p, u, c, approved)
    /\ UNCHANGED <<auth_users, profiles, user_roles, courses, enrollments,
                   course_modules, lessons, nextId, signup, sess>>

DeleteReview(p, u, c) ==
    /\ course_reviews' = ReviewsAfterDelete(p, u, c)
    /\ UNCHANGED <<auth_users, profiles, user_roles, courses, enrollments,
                   course_modules, lessons, nextId, signup, sess>>

\* ======================================================== Admin.tsx
\* One admin screen: the React state (view, editingCourse, modules) and the
\* position of saveCourse between its awaited storage requests.  modules is the
\* form: one sequence of lessons per module, a lesson being its is_preview.
\* resave, failed, interrupted and before record what the current or last
\* saveCourse did and the hierarchy it started from.
IdleSession ==
    [view |-> "list", editing |-> FALSE, id |-> NoId, is_published |-> FALSE,
     modules |-> <<>>, pc |-> "idle", courseId |-> NoId, mi |-> 0, li |-> 0,
     savedMod |-> NoId, toast |-> "none", resave |-> FALSE, failed |-> FALSE,
     interrupted |-> FALSE,
     before |-> [courses |-> {}, modules |-> {}, lessons |-> {}]]

\* useAuth().user of the screen: screen s is open in the account of user s
SessionUser(s) == s

\* emptyLesson().is_preview; emptyModule().lessons
emptyLesson == FALSE
emptyModule == <<emptyLesson>>

ModulesOf(c) == {m \in course_modules : m.course_id = c}
LessonsOf(ms) == {l \in lessons : \E m \in ms : m.id = l.module_id}

\* .order("sort_order"): ties in the order of the ids
RECURSIVE Ordered(_)
Ordered(rows) ==
    IF rows = {} THEN <<>>
    ELSE LET first == CHOOSE r \in rows : \A q \in rows :
                          \/ r.sort_order < q.sort_order
                          \/ r.sort_order = q.sort_order /\ r.id <= q.id
         IN <<first>> \o Ordered(rows \ {first})

startNewCourse(s) ==
    /\ sess[s].pc = "idle"
    /\ sess[s].view = "list"
    /\ sess' = [sess EXCEPT ![s] = [IdleSession EXCEPT
                   !.view = "edit", !.editing = TRUE,
                   !.modules = <<emptyModule>>]]
    /\ UNCHANGED dbvars

\* editCourse(course): the course row of the list, then its modules and their
\* lessons as the screen's user sees them
editCourse(s, c) ==
    LET p == SessionUser(s)
        mods == Ordered({m \in VisibleModules(p) : m.course_id = c.id})
        form == [i \in 1..Len(mods) |->
                    LET ls == Ordered({l \in VisibleLessons(p) :
                                          l.module_id = mods[i].id})
                    IN [j \in 1..Len(ls) |-> ls[j].is_preview]]
    IN
    /\ sess[s].pc = "idle"
    /\ sess[s].view = "list"
    /\ c \in VisibleCourses(p)
    /\ sess' = [sess EXCEPT ![s] = [IdleSession EXCEPT
                   !.view = "edit", !.editing = TRUE, !.id = c.id,
                   !.is_published = c.is_published,
                   !.modules = IF Len(form) > 0 THEN form ELSE <<emptyModule>>]]
    /\ UNCHANGED dbvars

Editing(s) ==
    sess[s].pc = "idle" /\ sess[s].view = "edit" /\ sess[s].editing

\* "Add Module" button
addModule(s) ==
    /\ Editing(s)
    /\ Len(sess[s].modules) < MaxModules
    /\ sess' = [sess EXCEPT ![s].modules = Append(@, emptyModule)]
    /\ UNCHANGED dbvars

\* remove-module button, disabled when modules.length <= 1
removeModule(s, i) ==
    /\ Editing(s)
    /\ Len(sess[s].modules) > 1
    /\ i \in 1..Len(sess[s].modules)
    /\ sess' = [sess EXCEPT ![s].modules =
                   SubSeq(@, 1, i - 1) \o SubSeq(@, i + 1, Len(@))]
    /\ UNCHANGED dbvars

\* "Add Lesson" button of module i
addLesson(s, i) ==
    /\ Editing(s)
    /\ i \in 1..Len(sess[s].modules)
    /\ Len(sess[s].modules[i]) < MaxLessons
    /\ sess' = [sess EXCEPT ![s].modules[i] = Append(@, emptyLesson)]
    /\ UNCHANGED dbvars

\* updateLesson(mi, li, "is_preview", v)
updateLesson(s, i, j, v) ==
    /\ Editing(s)
    /\ i \in 1..Len(sess[s].modules)
    /\ j \in 1..Len(sess[s].modules[i])
    /\ sess[s].modules[i][j] # v
    /\ sess' = [sess EXCEPT ![s].modules[i][j] = v]
    /\ UNCHANGED dbvars

\* the is_published switch of the course form
setPublished(s, v) ==
    /\ Editing(s)
    /\ sess[s].is_published # v
    /\ sess' = [sess EXCEPT ![s].is_published = v]
    /\ UNCHANGED dbvars

\* ---- saveCourse.  A storage request that fails returns {data: null, error}
\* and throws nothing; ok = FALSE is such a failure (the request had no effect).

\* where saveCourse is after the module loop's index moved to mi (0-based):
\* the next module insert, or the end of the loop: the success toast, view list
AfterModule(ss, mi) ==
    IF mi < Len(ss.modules)
    THEN [ss EXCEPT !.pc = "module", !.mi = mi, !.li = 0, !.savedMod = NoId]
    ELSE [ss EXCEPT !.pc = "idle", !.mi = mi, !.li = 0, !.savedMod = NoId,
                    !.toast = "saved", !.view = "list"]

\* after the lesson loop's index moved to li within module mi
AfterLesson(ss, li) ==
    IF li < Len(ss.modules[ss.mi + 1])
    THEN [ss EXCEPT !.pc = "lesson", !.li = li]
    ELSE AfterModule(ss, ss.mi + 1)

\* the catch branch: the destructive toast, the view stays
Caught(ss) == [ss EXCEPT !.pc = "idle", !.toast = "error", !.failed = TRUE]

\* Save button (disabled while saving), up to the first await:
\* courses.update(courseData).eq("id", courseId), or courses.insert(courseData)
saveCourse(s, ok) ==
    LET ss == sess[s]
        p == SessionUser(s)
        start == [ss EXCEPT !.toast = "none", !.resave = (ss.id # NoId),
                     !.failed = ~ok, !.interrupted = FALSE,
                     !.before = [courses |-> {c \in courses : c.id = ss.id},
                                 modules |-> ModulesOf(ss.id),
                                 lessons |-> LessonsOf(ModulesOf(ss.id))]]
    IN
    /\ Editing(s)
    /\ IF ss.id # NoId
       THEN /\ courses' = IF ok THEN CoursesAfterUpdate(p, ss.id, ss.is_published)
                          ELSE courses
            /\ nextId' = nextId
            /\ sess' = [sess EXCEPT ![s] =
                           [start EXCEPT !.pc = "delete", !.courseId = ss.id]]
       ELSE /\ nextId <= MaxSaveIds
            /\ Cardinality(courses) < MaxCourses
            /\ courses' = IF ok
                          THEN CoursesAfterInsert(p,
                                  [id |-> nextId, is_published |-> ss.is_published])
                          ELSE courses
            /\ nextId' = IF courses' = courses THEN nextId ELSE nextId + 1
            \* data?.id; if (!courseId) throw new Error("Failed to save course")
            /\ sess' = [sess EXCEPT ![s] =
                           IF courses' = courses
                           THEN Caught(start)
                           ELSE AfterModule([start EXCEPT !.courseId = nextId], 0)]
    /\ UNCHANGED <<auth_users, profiles, user_roles, enrollments, course_modules,
                   lessons, course_reviews, signup>>

\* course_modules.delete().eq("course_id", courseId), if (editingCourse.id)
saveCourse_delete(s, ok) ==
    LET ss == sess[s]
        p == SessionUser(s)
    IN
    /\ ss.pc = "delete"
    /\ course_modules' = IF ok THEN ModulesAfterDelete(p, ss.courseId)
                         ELSE course_modules
    /\ lessons' = CascadeLessons(course_modules')
    /\ sess' = [sess EXCEPT ![s] =
                   AfterModule([ss EXCEPT !.failed = @ \/ ~ok], 0)]
    /\ UNCHANGED <<auth_users, profiles, user_roles, courses, enrollments,
                   course_reviews, nextId, signup>>

\* course_modules.insert({course_id, ..., sort_order: mi}).select("id").single()
saveCourse_module(s, ok) ==
    LET ss == sess[s]
        p == SessionUser(s)
    IN
    /\ ss.pc = "module"
    /\ nextId <= MaxSaveIds
    /\ course_modules' =
          IF ok THEN ModulesAfterInsert(p,
                        [id |-> nextId, course_id |-> ss.courseId,
                         sort_order |-> ss.mi])
          ELSE course_modules
    /\ nextId' = IF course_modules' = course_modules THEN nextId ELSE nextId + 1
    \* if (savedMod) { the lesson loop }
    /\ sess' = [sess EXCEPT ![s] =
                   IF course_modules' = course_modules
                   THEN AfterModule([ss EXCEPT !.failed = TRUE], ss.mi + 1)
                   ELSE AfterLesson([ss EXCEPT !.savedMod = nextId], 0)]
    /\ UNCHANGED <<auth_users, profiles, user_roles, courses, enrollments,
                   lessons, course_reviews, signup>>

\* lessons.insert({module_id: savedMod.id, ..., sort_order: li, is_preview})
saveCourse_lesson(s, ok) ==
    LET ss == sess[s]
        p == SessionUser(s)
    IN
    /\ ss.pc = "lesson"
    /\ nextId <= MaxSaveIds
    /\ lessons' =
          IF ok THEN LessonsAfterInsert(p,
                        [id |-> nextId, module_id |-> ss.savedMod,
                         sort_order |-> ss.li,
                         is_preview |-> ss.modules[ss.mi + 1][ss.li + 1]])
          ELSE lessons
    /\ nextId' = IF lessons' = lessons THEN nextId ELSE nextId + 1
    /\ sess' = [sess EXCEPT ![s] =
                   AfterLesson([ss EXCEPT !.failed = @ \/ lessons' = lessons],
                               ss.li + 1)]
    /\ UNCHANGED <<auth_users, profiles, user_roles, courses, enrollments,
                   course_modules, course_reviews, signup>>

\* the page is closed or reloaded while saveCourse awaits a request: the
\* remaining requests are never issued and the screen starts over
saveCourse_interrupted(s) ==
    /\ sess[s].pc \in {"delete", "module", "lesson"}
    /\ sess' = [sess EXCEPT ![s] =
                   [@ EXCEPT !.pc = "idle", !.view = "list", !.editing = FALSE,
                             !.modules = <<>>, !.mi = 0, !.li = 0,
                             !.savedMod = NoId, !.interrupted = TRUE]]
    /\ UNCHANGED dbvars

\* deleteCourse(id), confirmed
deleteCourse(s, c) ==
    LET p == SessionUser(s) IN
    /\ sess[s].pc = "idle"
    /\ sess[s].view = "list"
    /\ courses' = CoursesAfterDelete(p, c.id)
    /\ course_modules' = CascadeModules(courses')
    /\ lessons' = CascadeLessons(course_modules')
    /\ enrollments' = CascadeEnrollments(courses')
    /\ course_reviews' = CascadeReviews(courses')
    /\ sess' = [sess EXCEPT ![s] = [IdleSession EXCEPT !.toast = "deleted"]]
    /\ UNCHANGED <<auth_users, profiles, user_roles, nextId, signup>>

\* ======================================================== specification
\* The schema as migrated, with two accounts signed up: the project owner
\* (user 1), granted admin from the SQL console, and a student (user 2).
\* No admin screen is open.
Init ==
    /\ auth_users = {1, 2}
    /\ profiles = {[user_id |-> 1, full_name |-> NULL],
                   [user_id |-> 2, full_name |-> "Ada"]}
    /\ user_roles = {[id |-> 0, user_id |-> 1, role |-> "student"],
                     [id |-> 0, user_id |-> 1, role |-> "admin"],
                     [id |-> 0, user_id |-> 2, role |-> "student"]}
    /\ courses = {}
    /\ enrollments = {}
    /\ course_modules = {}
    /\ lessons = {}
    /\ course_reviews = {}
    /\ nextId = 1
    /\ signup = [user |-> 2, full_name |-> "Ada", result |-> "ok"]
    /\ sess = [s \in Sessions |-> IdleSession]

FailPoints == {"none", "profile", "role"}

\* Two admins at their screens: the owner has granted admin to user 2 and has
\* inserted a course (id 1) with one module (id 2) that has no lesson yet.
ConcurrentSessions == 1..NumConcurrent
InitConcurrent ==
    /\ auth_users = {1, 2}
    /\ profiles = {[user_id |-> 1, full_name |-> NULL],
                   [user_id |-> 2, full_name |-> "Ada"]}
    /\ user_roles = {[id |-> 0, user_id |-> 1, role |-> "student"],
                     [id |-> 0, user_id |-> 1, role |-> "admin"],
                     [id |-> 0, user_id |-> 2, role |-> "student"],
                     [id |-> 0, user_id |-> 2, role |-> "admin"]}
    /\ courses = {[id |-> 1, is_published |-> FALSE]}
    /\ enrollments = {}
    /\ course_modules = {[id |-> 2, course_id |-> 1, sort_order |-> 0]}
    /\ lessons = {}
    /\ course_reviews = {}
    /\ nextId = 3
    /\ signup = [user |-> 2, full_name |-> "Ada", result |-> "ok"]
    /\ sess = [s \in ConcurrentSessions |-> IdleSession]

\* ---- Role Store
RolesNext ==
    \/ \E p \in auth_users, u \in Users, r \in app_role : InsertRole(p, u, r)
    \/ \E p \in auth_users, u \in Users, r \in app_role : DeleteRole(p, u, r)
    \/ \E p \in auth_users, g \in user_roles, r \in app_role :
          UpdateRole(p, g.user_id, g.role, r)

\* ---- Account Bootstrap and Role Store
AccountsNext ==
    \/ \E u \in Users, name \in Names \cup {NULL}, f \in FailPoints :
          Signup(u, name, f)
    \/ \E p \in auth_users, name \in Names \cup {NULL} : UpdateProfile(p, name)
    \/ RolesNext

\* ---- courses: requests on the courses table
CoursesNext ==
    \/ \E p \in auth_users, pub \in BOOLEAN : InsertCourse(p, pub)
    \/ \E p \in auth_users, c \in courses, pub \in BOOLEAN :
          UpdateCourse(p, c.id, pub)
    \/ \E p \in auth_users, c \in courses : DeleteCourse(p, c.id)

\* ---- Content Hierarchy Store
ContentNext ==
    \/ \E p \in auth_users, c \in courses : InsertModule(p, c.id)
    \/ \E p \in auth_users, c \in courses : DeleteModules(p, c.id)
    \/ \E p \in auth_users, m \in course_modules, pv \in BOOLEAN :
          InsertLesson(p, m.id, pv)

\* ---- the updates and the single-row deletes the admin policies of the
\* hierarchy allow besides
SortOrders == 0..(MaxModules - 1)
ContentEditNext ==
    \/ \E p \in auth_users, m \in course_modules, so \in SortOrders :
          UpdateModule(p, m.id, so)
    \/ \E p \in auth_users, l \in lessons, pv \in BOOLEAN :
          UpdateLesson(p, l.id, pv)
    \/ \E p \in auth_users, l \in lessons : DeleteLesson(p, l.id)

\* ---- Enrollment Store
EnrollmentsNext ==
    \/ \E p \in auth_users, u \in Users, c \in courses, st \in EnrollmentStatus :
          InsertEnrollment(p, u, c.id, st)
    \/ \E p \in auth_users, e \in enrollments, st \in EnrollmentStatus :
          UpdateEnrollment(p, e.user_id, e.course_id, st)
    \/ \E p \in auth_users, e \in enrollments :
          DeleteEnrollment(p, e.user_id, e.course_id)

\* ---- Review Store
ReviewsNext ==
    \/ \E p \in auth_users, c \in courses : InsertReview(p, p, c.id)
    \/ \E p \in auth_users, r \in course_reviews, a \in BOOLEAN :
          UpdateReview(p, r.user_id, r.course_id, a)
    \/ \E p \in auth_users, r \in course_reviews :
          DeleteReview(p, r.user_id, r.course_id)

\* The policy engine in front of the content hierarchy and the enrollments
Next == CoursesNext \/ ContentNext \/ EnrollmentsNext
Spec == Init /\ [][Next]_vars

\* Account Bootstrap and the Role Store
NextAccounts == AccountsNext
SpecAccounts == Init /\ [][NextAccounts]_vars

\* The Enrollment and Review Store
NextReviews == CoursesNext \/ EnrollmentsNext \/ ReviewsNext
SpecReviews == Init /\ [][NextReviews]_vars

\* Every request the policies of courses, course_modules and lessons decide,
\* and the grants and revocations of the role they test
NextContent ==
    \/ \E p \in auth_users, u \in auth_users : InsertRole(p, u, "admin")
    \/ \E p \in auth_users, u \in auth_users : DeleteRole(p, u, "admin")
    \/ CoursesNext \/ ContentNext \/ ContentEditNext
SpecContent == Init /\ [][NextContent]_vars

\* The three tables with a UNIQUE key over (user, role) or (user, course)
\* (status takes its column default)
NextUnique ==
    \/ RolesNext
    \/ \E p \in auth_users, pub \in BOOLEAN : InsertCourse(p, pub)
    \/ \E p \in auth_users, c \in courses : DeleteCourse(p, c.id)
    \/ \E p \in auth_users, u \in Users, c \in courses :
          InsertEnrollment(p, u, c.id, "active")
    \/ \E p \in auth_users, e \in enrollments :
          DeleteEnrollment(p, e.user_id, e.course_id)
    \/ \E p \in auth_users, c \in courses : InsertReview(p, p, c.id)
    \/ \E p \in auth_users, r \in course_reviews :
          DeleteReview(p, r.user_id, r.course_id)
SpecUnique == Init /\ [][NextUnique]_vars

\* The admin screen
NextSave ==
    \/ \E s \in Sessions : startNewCourse(s)
    \/ \E s \in Sessions, c \in courses : editCourse(s, c)
    \/ \E s \in Sessions : addModule(s)
    \/ \E s \in Sessions, i \in 1..MaxModules : removeModule(s, i)
    \/ \E s \in Sessions, i \in 1..MaxModules : addLesson(s, i)
    \/ \E s \in Sessions, i \in 1..MaxModules, j \in 1..MaxLessons,
          v \in BOOLEAN : updateLesson(s, i, j, v)
    \/ \E s \in Sessions, v \in BOOLEAN : setPublished(s, v)
    \/ \E s \in Sessions, ok \in BOOLEAN : saveCourse(s, ok)
    \/ \E s \in Sessions, ok \in BOOLEAN : saveCourse_delete(s, ok)
    \/ \E s \in Sessions, ok \in BOOLEAN : saveCourse_module(s, ok)
    \/ \E s \in Sessions, ok \in BOOLEAN : saveCourse_lesson(s, ok)
    \/ \E s \in Sessions : saveCourse_interrupted(s)
    \/ \E s \in Sessions, c \in courses : deleteCourse(s, c)
SpecSave == Init /\ [][NextSave]_vars

\* Two admin screens on the same course, every storage request succeeding:
\* each awaited request of a saveCourse is a step, so the requests of two runs
\* interleave in every order
NextConcurrent ==
    \/ \E s \in ConcurrentSessions, c \in courses : editCourse(s, c)
    \/ \E s \in ConcurrentSessions, i \in 1..MaxModules, j \in 1..MaxLessons,
          v \in BOOLEAN : updateLesson(s, i, j, v)
    \/ \E s \in ConcurrentSessions : saveCourse(s, TRUE)
    \/ \E s \in ConcurrentSessions : saveCourse_delete(s, TRUE)
    \/ \E s \in ConcurrentSessions : saveCourse_module(s, TRUE)
    \/ \E s \in ConcurrentSessions : saveCourse_lesson(s, TRUE)
SpecConcurrent == InitConcurrent /\ [][NextConcurrent]_vars

\* ======================================================== properties
IsAdmin(p) == has_role(p, "admin")
HasProfile(u) == \E r \in profiles : r.user_id = u
ProfilesOfUser(u) == {r \in profiles : r.user_id = u}
StudentGrant(u) == [id |-> NewRowId({}), user_id |-> u, role |-> "student"]
LessonsOfCourse(c) == LessonsOf(ModulesOf(c))
ActivelyEnrolled(p, c) ==
    \E e \in enrollments :
        e.user_id = p /\ e.course_id = c /\ e.status = "active"

\* C1: a principal without the admin role sees a course row exactly when the
\* course is published: an unpublished course is not returned, a published
\* one is.
C1_CourseVisibleIffPublished ==
    \A p \in Principals : ~IsAdmin(p) =>
        \A c \in courses : (c \in VisibleCourses(p)) <=> (c.is_published = TRUE)

\* C1 witness: a signed-up student and an unpublished course he cannot select
C1_Witness ==
    \E p \in auth_users : \E c \in courses :
        ~IsAdmin(p) /\ c.is_published = FALSE /\ c \notin VisibleCourses(p)

\* C2: a principal with an active enrollment in a course, published or not,
\* can select every lesson under every module of that course, preview or not.
C2_EnrolledSeesEveryLesson ==
    \A p \in Principals : \A c \in courses :
        ActivelyEnrolled(p, c.id) =>
            \A l \in LessonsOfCourse(c.id) : l \in VisibleLessons(p)

\* C3 as stated: for every principal without an active enrollment in a course,
\* no lesson of the course is selectable while the course is unpublished, and a
\* preview lesson is selectable when the course is published.
C3_Original ==
    \A p \in Principals : \A c \in courses :
        ~ActivelyEnrolled(p, c.id) =>
            \A l \in LessonsOfCourse(c.id) :
                /\ c.is_published = FALSE => l \notin VisibleLessons(p)
                /\ c.is_published = TRUE /\ l.is_preview = TRUE
                      => l \in VisibleLessons(p)

\* C3 amended: the same for every principal that does not hold the admin role
\* (an admin selects every lesson, enrolled or not).
C3_NotEnrolledSeesOnlyPublishedPreviews ==
    \A p \in Principals : \A c \in courses :
        ~IsAdmin(p) /\ ~ActivelyEnrolled(p, c.id) =>
            \A l \in LessonsOfCourse(c.id) :
                /\ c.is_published = FALSE => l \notin VisibleLessons(p)
                /\ c.is_published = TRUE /\ l.is_preview = TRUE
                      => l \in VisibleLessons(p)

\* C3 witness: a student who is not enrolled, and a preview lesson of an
\* unpublished course that he cannot select
C3_Witness ==
    \E p \in auth_users : \E c \in courses : \E l \in LessonsOfCourse(c.id) :
        /\ ~IsAdmin(p) /\ ~ActivelyEnrolled(p, c.id)
        /\ c.is_published = FALSE /\ l.is_preview = TRUE
        /\ l \notin VisibleLessons(p)

\* C4 as stated: in every reachable state a principal has a Profile exactly
\* when it has the RoleGrant (principal, student).
C4_Original ==
    \A u \in Users : HasProfile(u) <=> StudentGrant(u) \in user_roles

\* C4 amended, the state part: a principal with a student RoleGrant has a
\* Profile; a Profile belongs to a signed-up principal and is its only one; a
\* principal whose signup never succeeded has neither a Profile nor a RoleGrant.
C4_NoPartialBootstrap ==
    \A u \in Users :
        /\ StudentGrant(u) \in user_roles => HasProfile(u)
        /\ HasProfile(u) => u \in auth_users /\ Cardinality(ProfilesOfUser(u)) = 1
        /\ u \notin auth_users =>
              ~HasProfile(u) /\ ~\E r \in user_roles : r.user_id = u

\* C4 amended, the step part: whenever a Profile appears for a principal, the
\* step is a successful signup of that principal: the Profile carries the
\* full_name of the signup metadata (possibly NULL) and the student RoleGrant
\* is there with it; a signup that failed changed neither table.
C4_BootstrapStep ==
    /\ \A u \in Users : ~HasProfile(u) /\ HasProfile(u)' =>
          /\ signup' = [user |-> u, full_name |-> signup'.full_name,
                        result |-> "ok"]
          /\ profiles' = profiles \cup
                            {[user_id |-> u, full_name |-> signup'.full_name]}
          /\ user_roles' = user_roles \cup {StudentGrant(u)}
          /\ StudentGrant(u) \notin user_roles
    /\ signup' # signup /\ signup'.result = "failed" =>
          profiles' = profiles /\ user_roles' = user_roles
                               /\ auth_users' = auth_users

\* C4 amended: Account Bootstrap is all-or-nothing.
C4_BootstrapAllOrNothing == [](C4_NoPartialBootstrap) /\ [][C4_BootstrapStep]_vars

\* C4 witness: a signup of a new principal failed and left nothing of it, next
\* to a principal whose student RoleGrant an admin has deleted
C4_Witness ==
    /\ signup.result = "failed"
    /\ signup.user \notin auth_users
    /\ ~HasProfile(signup.user)
    /\ \E u \in auth_users : HasProfile(u) /\ StudentGrant(u) \notin user_roles

\* the persisted Course row, its Modules and their Lessons
Persisted(c) ==
    [courses |-> {x \in courses : x.id = c},
     modules |-> ModulesOf(c),
     lessons |-> LessonsOfCourse(c)]

\* C5: a re-save of an existing course that failed at some request or was
\* interrupted leaves the Course row, its Modules and their Lessons exactly as
\* they were before the re-save began.
C5_FailedResaveLeavesCourseAsBefore ==
    \A s \in Sessions :
        sess[s].resave /\ (sess[s].failed \/ sess[s].interrupted) =>
            Persisted(sess[s].courseId) = sess[s].before

\* C6: when a storage request of saveCourse has failed, saveCourse does not
\* report "Course saved successfully" (it reports the error).
C6_FailureIsReported ==
    \A s \in Sessions : sess[s].failed => sess[s].toast # "saved"

\* C7: after a re-save that reported success, the course has exactly the n
\* submitted modules with sort_order 0..n-1 in submission order, the i-th with
\* exactly its k_i submitted lessons with sort_order 0..k_i-1 in submission
\* order, and no module or lesson id from before the re-save remains.
C7_ResaveReplacesHierarchy ==
    \A s \in Sessions :
        LET ss == sess[s]
            ms == ModulesOf(ss.courseId)
            ls == LessonsOfCourse(ss.courseId)
            n == Len(ss.modules)
        IN ss.toast = "saved" /\ ss.resave =>
            /\ Cardinality(ms) = n
            /\ \A i \in 1..n : \E m \in ms :
                  /\ m.sort_order = i - 1
                  /\ Cardinality(LessonsOf({m})) = Len(ss.modules[i])
                  /\ \A j \in 1..Len(ss.modules[i]) : \E l \in LessonsOf({m}) :
                        l.sort_order = j - 1 /\ l.is_preview = ss.modules[i][j]
            /\ {m.id : m \in ms} \cap {m.id : m \in ss.before.modules} = {}
            /\ {l.id : l \in ls} \cap {l.id : l \in ss.before.lessons} = {}

\* C8: a principal with the admin role may select every row of every
\* protected table: profiles, user_roles, courses, course_modules, lessons,
\* course_reviews, enrollments.
C8_AdminSelectsEveryRow ==
    \A p \in Principals : IsAdmin(p) =>
        /\ \A r \in profiles : profiles_select(p, r)
        /\ \A r \in user_roles : user_roles_select(p, r)
        /\ \A r \in courses : courses_select(p, r)
        /\ \A r \in course_modules : course_modules_select(p, r)
        /\ \A r \in lessons : lessons_select(p, r)
        /\ \A r \in course_reviews : course_reviews_select(p, r)
        /\ \A r \in enrollments : enrollments_select(p, r)

\* C9: the author of a review, not an admin, can select it and can update it,
\* whether it is approved or not.
C9_AuthorSelectsAndUpdatesOwnReview ==
    \A r \in course_reviews : \A p \in Principals :
        p = r.user_id /\ ~IsAdmin(p) =>
            course_reviews_select(p, r) /\ course_reviews_update(p, r)

\* C10: while a principal's enrollment in a course is expired or refunded, the
\* principal (not an admin) can select no lesson of that course that is not a
\* preview.
C10_InactiveEnrollmentGivesNoAccess ==
    \A p \in Principals : \A e \in enrollments :
        /\ ~IsAdmin(p)
        /\ e.user_id = p
        /\ e.status \in {"expired", "refunded"}
        => \A l \in LessonsOfCourse(e.course_id) :
              l.is_preview = FALSE => l \notin VisibleLessons(p)

\* C10 witness: a student whose enrollment in a published course is no longer
\* active, and a lesson of that course, not a preview, that he cannot select
C10_Witness ==
    \E e \in enrollments : \E c \in courses : \E l \in LessonsOfCourse(c.id) :
        /\ ~IsAdmin(e.user_id)
        /\ e.course_id = c.id /\ c.is_published = TRUE
        /\ e.status \in {"expired", "refunded"}
        /\ l.is_preview = FALSE
        /\ l \notin VisibleLessons(e.user_id)

\* C11: in every reachable state no two rows of user_roles share (user_id,
\* role), no two rows of enrollments share (user_id, course_id) and no two rows
\* of course_reviews share (user_id, course_id); an insert of a key that is
\* already there, which its policy would let through, returns a unique
\* violation, and whoever sends it the table stays as it was.  Two inserts of
\* one key that race are ordered by the unique index: the one that comes second
\* is an insert of a key that is already there.
C11_UniqueKeysEnforced ==
    /\ \A r1, r2 \in user_roles :
          r1.user_id = r2.user_id /\ r1.role = r2.role => r1 = r2
    /\ \A e1, e2 \in enrollments :
          e1.user_id = e2.user_id /\ e1.course_id = e2.course_id => e1 = e2
    /\ \A r1, r2 \in course_reviews :
          r1.user_id = r2.user_id /\ r1.course_id = r2.course_id => r1 = r2
    /\ \A p \in Principals :
          /\ \A g \in user_roles :
                LET row == NewGrant(g.user_id, g.role) IN
                /\ user_roles_write(p, row) =>
                      UserRolesInsertResult(p, row) = "unique_violation"
                /\ UserRolesAfterInsert(p, row) = user_roles
          /\ \A e \in enrollments, st \in EnrollmentStatus :
                LET row == NewEnrollment(e.user_id, e.course_id, st) IN
                /\ enrollments_write(p, row) =>
                      EnrollmentsInsertResult(p, row) = "unique_violation"
                /\ EnrollmentsAfterInsert(p, row) = enrollments
          /\ \A r \in course_reviews :
                LET row == NewReview(r.user_id, r.course_id) IN
                /\ course_reviews_insert(p, row) =>
                      ReviewsInsertResult(p, row) = "unique_violation"
                /\ ReviewsAfterInsert(p, row) = course_reviews

\* an admin has granted a role, enrolled a user and a user has written a review:
\* each of the three inserts, sent again, is turned down by the unique index
C11_Witness ==
    \E p \in auth_users, e \in enrollments, r \in course_reviews :
        /\ SameGrant(2, "admin") # {}
        /\ UserRolesInsertResult(p, NewGrant(2, "admin")) = "unique_violation"
        /\ EnrollmentsInsertResult(p,
               NewEnrollment(e.user_id, e.course_id, "active"))
              = "unique_violation"
        /\ ReviewsInsertResult(r.user_id, NewReview(r.user_id, r.course_id))
              = "unique_violation"

\* C12 as stated: a signup event for a principal U that already has a Profile
\* fails and leaves profiles and user_roles as they were, and after it U has
\* one Profile and one RoleGrant (U, student).  (A step that is the signup
\* event of u under name records both in signup.)
C12_Original ==
    [][\A f \in FailPoints :
          LET u == signup'.user
              name == signup'.full_name
          IN HasProfile(u) /\ Signup(u, name, f) =>
              /\ signup'.result = "failed"
              /\ profiles' = profiles /\ user_roles' = user_roles
              /\ Cardinality({r \in profiles' : r.user_id = u}) = 1
              /\ Cardinality({r \in user_roles' :
                                r.user_id = u /\ r.role = "student"}) = 1]_vars

\* C12: a signup event for a principal U that already has a Profile fails and
\* leaves profiles and user_roles as they were: after it U has one Profile, and
\* the RoleGrant (U, student) once if U had it before the attempt, and not if
\* an admin had deleted it.
C12_SecondSignupChangesNothing ==
    [][\A f \in FailPoints :
          LET u == signup'.user
              name == signup'.full_name
          IN HasProfile(u) /\ Signup(u, name, f) =>
              /\ signup'.result = "failed"
              /\ profiles' = profiles /\ user_roles' = user_roles
              /\ Cardinality({r \in profiles' : r.user_id = u}) = 1
              /\ Cardinality({r \in user_roles' :
                                r.user_id = u /\ r.role = "student"}) =
                    IF SameGrant(u, "student") = {} THEN 0 ELSE 1]_vars

\* the last signup event was for a principal who had signed up before, under
\* another name, and it failed; that principal has one Profile, the first, and
\* the student grant
C12_Witness ==
    /\ signup.result = "failed"
    /\ signup.user \in auth_users
    /\ Cardinality(ProfilesOfUser(signup.user)) = 1
    /\ \A r \in ProfilesOfUser(signup.user) : r.full_name # signup.full_name
    /\ Cardinality(SameGrant(signup.user, "student")) = 1

\* C13: courses, course_modules and lessons are written by admins only.  In
\* every reachable state no insert, update or delete a principal without the
\* admin role can send would change the table it is sent to, and every step
\* that is such a request leaves courses, course_modules and lessons as they
\* were.
C13_NonAdminWriteDenied ==
    \A p \in Principals : ~IsAdmin(p) =>
        /\ \A pub \in BOOLEAN :
              CoursesAfterInsert(p, [id |-> nextId, is_published |-> pub])
                  = courses
        /\ \A c \in courses :
              /\ \A pub \in BOOLEAN : CoursesAfterUpdate(p, c.id, pub) = courses
              /\ CoursesAfterDelete(p, c.id) = courses
              /\ \A so \in SortOrders :
                    ModulesAfterInsert(p,
                        [id |-> nextId, course_id |-> c.id, sort_order |-> so])
                        = course_modules
              /\ ModulesAfterDelete(p, c.id) = course_modules
        /\ \A m \in course_modules :
              /\ \A so \in SortOrders :
                    ModulesAfterUpdate(p, m.id, so) = course_modules
              /\ \A so \in SortOrders, pv \in BOOLEAN :
                    LessonsAfterInsert(p,
                        [id |-> nextId, module_id |-> m.id, sort_order |-> so,
                         is_preview |-> pv]) = lessons
        /\ \A l \in lessons :
              /\ \A pv \in BOOLEAN : LessonsAfterUpdate(p, l.id, pv) = lessons
              /\ LessonsAfterDelete(p, l.id) = lessons

C13_NonAdminRequest(p) ==
    \/ \E pub \in BOOLEAN : InsertCourse(p, pub)
    \/ \E c \in courses, pub \in BOOLEAN : UpdateCourse(p, c.id, pub)
    \/ \E c \in courses : DeleteCourse(p, c.id)
    \/ \E c \in courses : InsertModule(p, c.id) \/ DeleteModules(p, c.id)
    \/ \E m \in course_modules, so \in SortOrders : UpdateModule(p, m.id, so)
    \/ \E m \in course_modules, pv \in BOOLEAN : InsertLesson(p, m.id, pv)
    \/ \E l \in lessons, pv \in BOOLEAN : UpdateLesson(p, l.id, pv)
    \/ \E l \in lessons : DeleteLesson(p, l.id)

C13_Step ==
    \A p \in Principals : ~IsAdmin(p) /\ C13_NonAdminRequest(p) =>
        UNCHANGED <<courses, course_modules, lessons>>

C13_OnlyAdminsWriteContent ==
    [](C13_NonAdminWriteDenied) /\ [][C13_Step]_vars

\* an admin has written a course, a module and a lesson; sent by a signed-up
\* principal without the admin role, the delete and the update that would
\* change the rows for the admin change nothing
C13_Witness ==
    \E p \in auth_users, a \in auth_users, c \in courses, m \in course_modules,
       l \in lessons :
        /\ ~IsAdmin(p) /\ IsAdmin(a)
        /\ m.course_id = c.id /\ l.module_id = m.id
        /\ CoursesAfterDelete(a, c.id) # courses
        /\ CoursesAfterDelete(p, c.id) = courses
        /\ ModulesAfterDelete(a, c.id) # course_modules
        /\ ModulesAfterDelete(p, c.id) = course_modules
        /\ LessonsAfterUpdate(a, l.id, ~l.is_preview) # lessons
        /\ LessonsAfterUpdate(p, l.id, ~l.is_preview) = lessons

\* the course has exactly the modules of the form, in its order, each with
\* exactly its lessons, in their order
SavedAs(c, form) ==
    LET ms == ModulesOf(c) IN
    /\ Cardinality(ms) = Len(form)
    /\ \A i \in 1..Len(form) : \E m \in ms :
          /\ m.sort_order = i - 1
          /\ Cardinality(LessonsOf({m})) = Len(form[i])
          /\ \A j \in 1..Len(form[i]) : \E l \in LessonsOf({m}) :
                l.sort_order = j - 1 /\ l.is_preview = form[i][j]

\* C14: when two admins have run saveCourse on the same existing course with
\* different module lists, no request has failed and both runs have completed,
\* the course's modules and lessons are exactly the submission of one of the
\* two runs, however their storage requests interleaved.
C14_LastWriterWins ==
    \A s \in ConcurrentSessions, t \in ConcurrentSessions :
        LET a == sess[s]
            b == sess[t]
        IN /\ s # t
           /\ a.pc = "idle" /\ a.resave /\ a.toast = "saved" /\ ~a.failed
           /\ b.pc = "idle" /\ b.resave /\ b.toast = "saved" /\ ~b.failed
           /\ a.courseId = b.courseId
           /\ a.modules # b.modules
           => SavedAs(a.courseId, a.modules) \/ SavedAs(a.courseId, b.modules)

\* C15: no privilege escalation through user_roles.  In every reachable state
\* no insert, update or delete on user_roles that a principal without the
\* admin role can send changes the table; every step that is such a request
\* leaves user_roles as it was; and every row a step adds to user_roles is
\* either the student grant that the signup event of that step wrote for the
\* principal who signed up, or was written by an insert or update of a
\* principal who held the admin role when the step began.
C15_NonAdminRoleWriteDenied ==
    \A p \in Principals : ~IsAdmin(p) =>
        /\ \A u \in Users, r \in app_role :
              UserRolesAfterInsert(p, NewGrant(u, r)) = user_roles
        /\ \A g \in user_roles :
              /\ UserRolesAfterDelete(p, g.user_id, g.role) = user_roles
              /\ \A r \in app_role :
                    UserRolesAfterUpdate(p, g.user_id, g.role, r) = user_roles

\* the step is a request of p that changes user_roles: such a request names
\* the key of a row it adds or removes
C15_RoleRequest(p) ==
    \E g \in (user_roles' \ user_roles) \cup (user_roles \ user_roles') :
        \/ InsertRole(p, g.user_id, g.role)
        \/ DeleteRole(p, g.user_id, g.role)
        \/ \E r \in app_role : UpdateRole(p, g.user_id, g.role, r)

C15_Step ==
    /\ user_roles' # user_roles =>
          \A p \in Principals : C15_RoleRequest(p) => IsAdmin(p)
    /\ \A g \in user_roles' \ user_roles :
          \/ /\ g.role = "student"
             /\ g.user_id \notin auth_users
             /\ \E name \in Names \cup {NULL}, f \in FailPoints :
                   Signup(g.user_id, name, f)
          \/ \E p \in Principals : IsAdmin(p) /\ C15_RoleRequest(p)

C15_NoPrivilegeEscalation ==
    [](C15_NonAdminRoleWriteDenied) /\ [][C15_Step]_vars

\* user 3 has signed up and holds the student grant of the bootstrap and no
\* other, user 2 holds an admin grant that an admin inserted, and the insert by
\* which user 3 would make itself admin changes nothing
C15_Witness ==
    /\ 3 \in auth_users
    /\ {g.role : g \in {r \in user_roles : r.user_id = 3}} = {"student"}
    /\ SameGrant(2, "admin") # {}
    /\ UserRolesAfterInsert(3, NewGrant(3, "admin")) = user_roles
    /\ UserRolesAfterInsert(2, NewGrant(3, "admin")) # user_roles

====
